---------------------------- MODULE Spec2Model ----------------------------
(***************************************************************************)
(* A model of crusty-request: the terminal HTTP request composer.          *)
(*                                                                         *)
(* The state is the App aggregate (src/src/app.rs), the position of the    *)
(* event loop run_app (src/src/main.rs), the dispatch tasks it spawns and  *)
(* the mpsc channel through which they report.                             *)
(*                                                                         *)
(* Text is a sequence of one-character strings, so that push, pop, join    *)
(* and split are computed as the code computes them.  An Option is the     *)
(* empty tuple (None) or a one-element tuple (Some(v)).                    *)
(*                                                                         *)
(* RequestHistoryEntry.timestamp (app.rs:27-30) is written once from the   *)
(* wall clock and read by nothing; it is left out of the entry.            *)
(***************************************************************************)
EXTENDS Integers, Sequences, FiniteSets, TLC

VARIABLES
    running,             \* App.running
    input_mode,          \* App.input_mode
    focused_pane,        \* App.focused_pane
    method,              \* App.method
    url_input,           \* App.url_input
    active_request_tab,  \* App.active_request_tab
    headers,             \* App.headers
    params,              \* App.params
    authorization,       \* App.authorization
    body_input,          \* App.body_input (TextArea: lines and cursor)
    response_text,       \* App.response_text
    response_status,     \* App.response_status
    response_scroll,     \* App.response_scroll
    history,             \* App.history
    history_index,       \* App.history_index
    validation_error,    \* App.validation_error
    pc,                  \* where run_app is: "poll", "recv" or "done"
    tasks,               \* the tasks spawned by tokio::spawn, in spawn order
    chan,                \* every message that entered the channel, in order
    received             \* how many of them rx.try_recv has taken out

vars == <<running, input_mode, focused_pane, method, url_input,
          active_request_tab, headers, params, authorization, body_input,
          response_text, response_status, response_scroll, history,
          history_index, validation_error, pc, tasks, chan, received>>

appVars == <<running, input_mode, focused_pane, method, url_input,
             active_request_tab, headers, params, authorization, body_input,
             response_text, response_status, response_scroll, history,
             history_index, validation_error>>

requestVars == <<method, url_input, headers, params, authorization, body_input>>

-----------------------------------------------------------------------------
(* Bounds of the exploration.                                              *)

MaxUrl == 1         \* Spec: characters in the url
MaxHistory == 2     \* Spec: submissions
MaxEdits == 1       \* SpecRequest: edits the request holds at one time
MaxSaved == 1       \* SpecRequest: submissions
MaxCells == 3       \* SpecDetails: rows and characters in the three tables
MaxBody == 1        \* SpecRecall: characters in the body
MaxRecall == 2      \* SpecRecall: submissions
MaxTyped == 1       \* SpecQuit: characters in the url
MaxFlight == 2      \* SpecQuit: dispatches
MaxText == 3        \* characters in a text given to set_body_text
MaxRows == 2        \* SpecTransport: rows in the tables given to make_request
MaxDispatch == 11   \* SpecInbox: dispatches
MaxAuthRows == 3    \* SpecAuth: rows in the Authorization table
MaxScroll == 2      \* SpecResponse: lines the response is scrolled

-----------------------------------------------------------------------------
(* Option, text.                                                           *)

None == <<>>
Some(v) == <<v>>
IsSome(o) == Len(o) = 1
Unwrap(o) == o[1]

NL == "\n"

\* Vec::pop / String::pop: drop the last element if there is one.
Pop(s) == IF Len(s) = 0 THEN s ELSE SubSeq(s, 1, Len(s) - 1)

IsPrefix(s, t) == Len(s) <= Len(t) /\ SubSeq(t, 1, Len(s)) = s

RECURSIVE Join(_)
\* [String]::join("\n")
Join(ls) ==
    IF Len(ls) = 0 THEN <<>>
    ELSE IF Len(ls) = 1 THEN ls[1]
    ELSE ls[1] \o <<NL>> \o Join(Tail(ls))

RECURSIVE SplitNL(_)
\* the pieces of a text between its line breaks (always at least one piece)
SplitNL(t) ==
    IF \A i \in 1..Len(t) : t[i] # NL THEN <<t>>
    ELSE LET i == CHOOSE j \in 1..Len(t) :
                      t[j] = NL /\ \A k \in 1..(j - 1) : t[k] # NL
         IN  <<SubSeq(t, 1, i - 1)>> \o SplitNL(SubSeq(t, i + 1, Len(t)))

CR == "\r"

\* a line that was ended by a line feed loses a carriage return before it
StripCR(l) == IF l # <<>> /\ l[Len(l)] = CR THEN SubSeq(l, 1, Len(l) - 1) ELSE l

\* str::lines: the pieces between line feeds, each without the carriage
\* return that preceded its line feed; a final empty piece is dropped (the
\* last line ending is optional; the empty text has no lines) and a final
\* piece that no line feed ended is kept as it is.
Lines(t) ==
    LET ps == SplitNL(t)
        n  == Len(ps)
        ended == [k \in 1..(n - 1) |-> StripCR(ps[k])]
    IN  IF ps[n] = <<>> THEN ended ELSE Append(ended, ps[n])

\* str::trim().is_empty() over the whitespace of the model's alphabet
TrimIsEmpty(t) == \A i \in 1..Len(t) : t[i] \in {NL, " "}


-----------------------------------------------------------------------------
(* KeyValueEntries (src/src/key_value.rs).  Indices are 0-based as in the  *)
(* code: entry i of the Vec is entries[i + 1] here.                        *)

KeyValueEntry(k, v, e) == [key |-> k, value |-> v, enabled |-> e]

KeyValueEntries_new ==
    [entries |-> <<>>, focused_index |-> 0, focused_field |-> "Key"]

\* add_entry creating the row disabled
add_entry_disabled(t, k, v) ==
    [t EXCEPT !.entries = Append(@, KeyValueEntry(k, v, FALSE))]

add_entry(t, k, v) ==
    [t EXCEPT !.entries = Append(@, KeyValueEntry(k, v, TRUE))]

remove_entry(t, index) ==
    IF index < Len(t.entries)
    THEN [t EXCEPT !.entries = SubSeq(@, 1, index) \o SubSeq(@, index + 2, Len(@))]
    ELSE t

\* get_selected_mut(index).is_some()
has_selected(t, index) == index < Len(t.entries)

\* the table with entry e written through the reference that
\* get_selected_mut(index) returns, if it returns one
set_selected(t, index, e) ==
    IF has_selected(t, index)
    THEN [t EXCEPT !.entries[index + 1] = e]
    ELSE t

\* entry.key.push(c) / entry.value.push(c), by focused field
push_field(t, index, field, c) ==
    IF has_selected(t, index)
    THEN LET e == t.entries[index + 1]
         IN  set_selected(t, index,
                          IF field = "Key" THEN [e EXCEPT !.key = Append(@, c)]
                          ELSE [e EXCEPT !.value = Append(@, c)])
    ELSE t

\* pop_field that removes the row when the focused field is already empty
pop_field_drops_row(t, index, field) ==
    IF has_selected(t, index)
    THEN LET e == t.entries[index + 1]
         IN  IF (IF field = "Key" THEN e.key ELSE e.value) = <<>>
             THEN remove_entry(t, index)
             ELSE set_selected(t, index,
                               IF field = "Key" THEN [e EXCEPT !.key = Pop(@)]
                               ELSE [e EXCEPT !.value = Pop(@)])
    ELSE t

\* entry.key.pop() / entry.value.pop(), by focused field
pop_field(t, index, field) ==
    IF has_selected(t, index)
    THEN LET e == t.entries[index + 1]
         IN  set_selected(t, index,
                          IF field = "Key" THEN [e EXCEPT !.key = Pop(@)]
                          ELSE [e EXCEPT !.value = Pop(@)])
    ELSE t

\* Normal mode, RequestDetails pane, Up
kv_up(t) ==
    IF t.focused_index > 0
    THEN [t EXCEPT !.focused_index = @ - 1]
    ELSE t

\* Normal mode, RequestDetails pane, Down
kv_down(t) ==
    IF t.focused_index <= Len(t.entries)
    THEN [t EXCEPT !.focused_index = @ + 1]
    ELSE t

\* Editing mode, RequestDetails pane, Tab
kv_switch_field(t) ==
    [t EXCEPT !.focused_field = IF @ = "Key" THEN "Value" ELSE "Key"]

\* kv_enter without the test of main.rs:212: a new empty entry is added
\* on every Enter, also when the cursor is on a real row
kv_enter_always_adds(t) ==
    LET t1 == add_entry(t, <<>>, <<>>)
        i  == t1.focused_index + 1
    IN  [t1 EXCEPT !.focused_index = IF i > Len(t1.entries) THEN Len(t1.entries) ELSE i,
                   !.focused_field = "Key"]

\* Editing mode, RequestDetails pane, Enter
kv_enter(t) ==
    LET t1 == IF t.focused_index >= Len(t.entries)
              THEN add_entry(t, <<>>, <<>>) ELSE t
        i  == t1.focused_index + 1
    IN  [t1 EXCEPT !.focused_index = IF i > Len(t1.entries) THEN Len(t1.entries) ELSE i,
                   !.focused_field = "Key"]

\* kv_delete without the focus adjustment of main.rs:234-238
kv_delete_no_adjust(t) ==
    LET idx == t.focused_index
    IN  IF idx < Len(t.entries) THEN remove_entry(t, idx) ELSE t

\* Editing mode, RequestDetails pane, Ctrl-D / Ctrl-Delete
kv_delete(t) ==
    LET idx == t.focused_index
    IN  IF idx < Len(t.entries)
        THEN LET t1 == remove_entry(t, idx)
             IN  IF t1.focused_index >= Len(t1.entries) /\ t1.focused_index > 0
                 THEN [t1 EXCEPT !.focused_index = @ - 1]
                 ELSE t1
        ELSE t

\* Editing mode, RequestDetails pane, Char(c)
kv_char(t, c) ==
    LET field == t.focused_field
        index == t.focused_index
    IN  IF has_selected(t, index)
        THEN push_field(t, index, field, c)
        ELSE IF index >= Len(t.entries)
        THEN push_field(add_entry(t, <<>>, <<>>), index, field, c)
        ELSE t

\* Editing mode, RequestDetails pane, Backspace
kv_backspace(t) == pop_field(t, t.focused_index, t.focused_field)

-----------------------------------------------------------------------------
(* The body TextArea (tui_textarea, used at app.rs:93, 120, 187-194 and    *)
(* main.rs:187): lines of text and a cursor (row, col), both 0-based.      *)

TextArea_default == [lines |-> << <<>> >>, row |-> 0, col |-> 0]

\* TextArea::new: an empty Vec becomes one empty line; the cursor is at (0, 0)
TextArea_new(ls) ==
    [lines |-> IF ls = <<>> THEN << <<>> >> ELSE ls, row |-> 0, col |-> 0]

\* input(Char(c)): insert c at the cursor
insert_char(ta, c) ==
    LET l == ta.lines[ta.row + 1]
    IN  [ta EXCEPT !.lines[ta.row + 1] =
                       SubSeq(l, 1, ta.col) \o <<c>> \o SubSeq(l, ta.col + 1, Len(l)),
                   !.col = @ + 1]

\* input(Enter): split the line at the cursor
insert_newline(ta) ==
    LET l == ta.lines[ta.row + 1]
    IN  [lines |-> SubSeq(ta.lines, 1, ta.row)
                   \o <<SubSeq(l, 1, ta.col), SubSeq(l, ta.col + 1, Len(l))>>
                   \o SubSeq(ta.lines, ta.row + 2, Len(ta.lines)),
         row |-> ta.row + 1, col |-> 0]

\* input(Backspace): delete the character before the cursor, or join the
\* line to the one above when the cursor is at its head
delete_char(ta) ==
    LET l == ta.lines[ta.row + 1]
    IN  IF ta.col > 0
        THEN [ta EXCEPT !.lines[ta.row + 1] =
                            SubSeq(l, 1, ta.col - 1) \o SubSeq(l, ta.col + 1, Len(l)),
                        !.col = @ - 1]
        ELSE IF ta.row > 0
        THEN [lines |-> SubSeq(ta.lines, 1, ta.row - 1)
                        \o <<ta.lines[ta.row] \o l>>
                        \o SubSeq(ta.lines, ta.row + 2, Len(ta.lines)),
              row |-> ta.row - 1, col |-> Len(ta.lines[ta.row])]
        ELSE ta

\* input(Left): one character back, from a line's head to the tail of the
\* line above
move_back(ta) ==
    IF ta.col > 0 THEN [ta EXCEPT !.col = @ - 1]
    ELSE IF ta.row > 0
    THEN [ta EXCEPT !.row = @ - 1, !.col = Len(ta.lines[ta.row])]
    ELSE ta

\* App::get_body_text
get_body_text(ta) == Join(ta.lines)

\* App::set_body_text
set_body_text(text) == TextArea_new(Lines(text))

-----------------------------------------------------------------------------
(* serde_json::from_str::<Value>, restricted to texts over the characters  *)
(* "{", "}", "1", " " and the line break: such a text is JSON exactly when *)
(* it is, between optional whitespace, a run of digits or an object with   *)
(* nothing but whitespace between its braces.                              *)

IsWs(c) == c \in {NL, " "}

Trimmed(t) ==
    LET idx == {i \in 1..Len(t) : ~IsWs(t[i])}
        Min(S) == CHOOSE x \in S : \A y \in S : x <= y
        Max(S) == CHOOSE x \in S : \A y \in S : x >= y
    IN  IF idx = {} THEN <<>> ELSE SubSeq(t, Min(idx), Max(idx))

JsonParses(t) ==
    LET s == Trimmed(t)
    IN  /\ Len(s) > 0
        /\ \/ \A i \in 1..Len(s) : s[i] = "1"
           \/ /\ Len(s) >= 2
              /\ s[1] = "{"
              /\ s[Len(s)] = "}"
              /\ \A i \in 2..(Len(s) - 1) : IsWs(s[i])

\* the (line, column, message) of serde_json's error, as one token
JsonError == "json error"

\* App::validate_body, as the value it leaves in validation_error
validate_body(ta) ==
    LET body_text == get_body_text(ta)
    IN  IF TrimIsEmpty(body_text) THEN None
        ELSE IF JsonParses(body_text) THEN None
        ELSE Some(JsonError)

-----------------------------------------------------------------------------
(* App (src/src/app.rs).                                                   *)

Methods == {"GET", "POST", "PUT", "DELETE", "PATCH"}
Panes == {"Method", "Url", "RequestDetails", "Body", "Response"}
Tabs == {"Headers", "Params", "Authorization"}

next_method(m) ==
    CASE m = "GET" -> "POST"
      [] m = "POST" -> "PUT"
      [] m = "PUT" -> "DELETE"
      [] m = "DELETE" -> "PATCH"
      [] m = "PATCH" -> "GET"

\* prev_method without the wrap-around: GET stays GET
prev_method_stuck(m) ==
    CASE m = "GET" -> "GET"
      [] m = "POST" -> "GET"
      [] m = "PUT" -> "POST"
      [] m = "DELETE" -> "PUT"
      [] m = "PATCH" -> "DELETE"

prev_method(m) ==
    CASE m = "GET" -> "PATCH"
      [] m = "POST" -> "GET"
      [] m = "PUT" -> "POST"
      [] m = "DELETE" -> "PUT"
      [] m = "PATCH" -> "DELETE"

next_tab(t) ==
    CASE t = "Headers" -> "Params"
      [] t = "Params" -> "Authorization"
      [] t = "Authorization" -> "Headers"

prev_tab(t) ==
    CASE t = "Headers" -> "Authorization"
      [] t = "Params" -> "Headers"
      [] t = "Authorization" -> "Params"

\* next_pane with the Response arm leading to Url: the Method pane is left
\* out of the ring
next_pane_short(p) ==
    CASE p = "Method" -> "Url"
      [] p = "Url" -> "RequestDetails"
      [] p = "RequestDetails" -> "Body"
      [] p = "Body" -> "Response"
      [] p = "Response" -> "Url"

\* the Tab arm of the Normal-mode match
next_pane(p) ==
    CASE p = "Method" -> "Url"
      [] p = "Url" -> "RequestDetails"
      [] p = "RequestDetails" -> "Body"
      [] p = "Body" -> "Response"
      [] p = "Response" -> "Method"

\* the table get_active_tab_mut borrows
get_active_tab ==
    CASE active_request_tab = "Headers" -> headers
      [] active_request_tab = "Params" -> params
      [] active_request_tab = "Authorization" -> authorization

\* set_active_tab with the Params arm of get_active_tab_mut borrowing
\* self.headers: a write meant for the params table lands in the headers
set_active_tab_crossed(t) ==
    /\ headers' = IF active_request_tab \in {"Headers", "Params"} THEN t ELSE headers
    /\ params' = params
    /\ authorization' = IF active_request_tab = "Authorization" THEN t ELSE authorization

\* a write through the borrow of get_active_tab_mut: the active table
\* becomes t, the other two stay
set_active_tab(t) ==
    /\ headers' = IF active_request_tab = "Headers" THEN t ELSE headers
    /\ params' = IF active_request_tab = "Params" THEN t ELSE params
    /\ authorization' = IF active_request_tab = "Authorization" THEN t ELSE authorization

RequestHistoryEntry_new(m, u, h, p, a, b) ==
    [method |-> m, url |-> u, headers |-> h, params |-> p, auth |-> a, body |-> b]

\* save_to_history with the headers and params arguments of
\* RequestHistoryEntry::new in each other's place
save_to_history_swapped ==
    /\ history' = Append(history,
                         RequestHistoryEntry_new(method, url_input, params, headers,
                                                 authorization, get_body_text(body_input)))
    /\ history_index' = None

\* save_to_history keeping one entry only: the older one is evicted
save_to_history_capped ==
    /\ history' = Append(IF Len(history) >= 1 THEN Tail(history) ELSE history,
                         RequestHistoryEntry_new(method, url_input, headers, params,
                                                 authorization, get_body_text(body_input)))
    /\ history_index' = None

\* save_to_history without the reset of history_index
save_to_history_keeps_cursor ==
    /\ history' = Append(history,
                         RequestHistoryEntry_new(method, url_input, headers, params,
                                                 authorization, get_body_text(body_input)))
    /\ UNCHANGED history_index

save_to_history ==
    /\ history' = Append(history,
                         RequestHistoryEntry_new(method, url_input, headers, params,
                                                 authorization, get_body_text(body_input)))
    /\ history_index' = None

load_from_history(index) ==
    IF index < Len(history)
    THEN LET entry == history[index + 1]
         IN  /\ method' = entry.method
             /\ url_input' = entry.url
             /\ headers' = entry.headers
             /\ params' = entry.params
             /\ authorization' = entry.auth
             /\ body_input' = set_body_text(entry.body)
             /\ history_index' = Some(index)
    ELSE UNCHANGED <<requestVars, history_index>>

prev_history ==
    IF Len(history) = 0
    THEN UNCHANGED <<requestVars, history_index>>
    ELSE LET new_index ==
                 IF history_index = None THEN Len(history) - 1
                 ELSE IF Unwrap(history_index) = 0 THEN 0
                 ELSE Unwrap(history_index) - 1
         IN  load_from_history(new_index)

next_history ==
    IF Len(history) = 0
    THEN UNCHANGED <<requestVars, history_index>>
    ELSE IF history_index = None
    THEN UNCHANGED <<requestVars, history_index>>
    ELSE IF Unwrap(history_index) >= Len(history) - 1
    THEN /\ history_index' = None
         /\ UNCHANGED requestVars
    ELSE load_from_history(Unwrap(history_index) + 1)

-----------------------------------------------------------------------------
(* The dispatch (main.rs:92-111, network.rs).  The transport is external:  *)
(* a call returns any one of TransportResults.                             *)

Str_Loading == <<"L", "o", "a", "d", "i", "n", "g", ".", ".", ".">>
Str_Error == <<"E", "r", "r", "o", "r", ":", " ">>

ApiResponse(status, body) == [tag |-> "Ok", status |-> status, body |-> body]
TransportError(msg) == [tag |-> "Err", msg |-> msg]

TransportResults == {ApiResponse(200, <<"1">>), TransportError(<<"x">>)}

\* mpsc::channel(10)
Capacity == 10

\* the messages in the channel: those sent and not yet received
Inbox == SubSeq(chan, received + 1, Len(chan))

\* RequestCopy with an empty url in place of the url field
RequestCopy_without_url ==
    [method |-> method, url |-> <<>>, headers |-> headers, params |-> params,
     auth |-> authorization, body |-> get_body_text(body_input)]

\* the arguments moved into the spawned task
RequestCopy ==
    [method |-> method, url |-> url_input, headers |-> headers, params |-> params,
     auth |-> authorization, body |-> get_body_text(body_input)]

-----------------------------------------------------------------------------
(* make_request (src/src/network.rs): the request it builds from its       *)
(* arguments.  Characters are the printable ASCII characters, the line     *)
(* feed and the carriage return.                                           *)

Upper == <<"A", "B", "C", "D", "E", "F", "G", "H", "I", "J", "K", "L", "M",
           "N", "O", "P", "Q", "R", "S", "T", "U", "V", "W", "X", "Y", "Z">>
Lower == <<"a", "b", "c", "d", "e", "f", "g", "h", "i", "j", "k", "l", "m",
           "n", "o", "p", "q", "r", "s", "t", "u", "v", "w", "x", "y", "z">>
Digits == <<"0", "1", "2", "3", "4", "5", "6", "7", "8", "9">>

\* the grave accent (code 96), which a string of this language cannot hold
Grave == "grave"

\* the characters with codes 32 to 126, in order
AsciiPrintable ==
    <<" ", "!", "\"", "#", "$", "%", "&", "'", "(", ")", "*", "+", ",", "-",
      ".", "/">> \o Digits \o <<":", ";", "<", "=", ">", "?", "@">> \o Upper
    \o <<"[", "\\", "]", "^", "_", Grave>> \o Lower \o <<"{", "|", "}", "~">>

IndexOf(s, c) == CHOOSE i \in 1..Len(s) : s[i] = c
Has(s, c) == \E i \in 1..Len(s) : s[i] = c

\* the byte of a character
Byte(c) ==
    IF c = NL THEN 10
    ELSE IF c = CR THEN 13
    ELSE 31 + IndexOf(AsciiPrintable, c)

\* u8::to_ascii_lowercase
to_ascii_lowercase(c) == IF Has(Upper, c) THEN Lower[IndexOf(Upper, c)] ELSE c

\* str::eq_ignore_ascii_case
eq_ignore_ascii_case(a, b) ==
    /\ Len(a) = Len(b)
    /\ \A i \in 1..Len(a) : to_ascii_lowercase(a[i]) = to_ascii_lowercase(b[i])

\* HeaderName::from_str: a non-empty run of token characters, lowercased
IsTokenChar(c) ==
    \/ Has(Upper, c) \/ Has(Lower, c) \/ Has(Digits, c)
    \/ c \in {"!", "#", "$", "%", "&", "'", "*", "+", "-", ".", "^", "_", Grave, "|", "~"}

HeaderName_from_str(t) ==
    IF t # <<>> /\ \A i \in 1..Len(t) : IsTokenChar(t[i])
    THEN Some([i \in 1..Len(t) |-> to_ascii_lowercase(t[i])])
    ELSE None

\* HeaderValue::from_str: any run of visible characters and spaces
HeaderValue_from_str(t) ==
    IF \A i \in 1..Len(t) : t[i] \notin {NL, CR} THEN Some(t) ELSE None

\* a HeaderMap is the set of its <<name, value>> pairs
HeaderMap_new == {}

\* HeaderMap::insert: the value replaces those the name had
HeaderMap_insert(m, n, v) == {p \in m : p[1] # n} \cup {<<n, v>>}

\* HeaderMap::append: the value joins those the name had
HeaderMap_append(m, n, v) == m \cup {<<n, v>>}

AUTHORIZATION ==
    <<"a", "u", "t", "h", "o", "r", "i", "z", "a", "t", "i", "o", "n">>
CONTENT_TYPE == <<"c", "o", "n", "t", "e", "n", "t", "-", "t", "y", "p", "e">>
Str_application_json ==
    <<"a", "p", "p", "l", "i", "c", "a", "t", "i", "o", "n", "/", "j", "s", "o", "n">>
Str_Authorization ==
    <<"A", "u", "t", "h", "o", "r", "i", "z", "a", "t", "i", "o", "n">>
Str_Bearer == <<"B", "e", "a", "r", "e", "r">>
Str_API_Key == <<"A", "P", "I", "-", "K", "e", "y">>
Str_X_API_Key == <<"X", "-", "A", "P", "I", "-", "K", "e", "y">>
Str_username == <<"u", "s", "e", "r", "n", "a", "m", "e">>
Str_password == <<"p", "a", "s", "s", "w", "o", "r", "d">>
Str_Basic == <<"B", "a", "s", "i", "c", " ">>

\* general_purpose::STANDARD.encode: three bytes become four characters of
\* the alphabet, a last group of one or two bytes is padded with "="
B64Alphabet == Upper \o Lower \o Digits \o <<"+", "/">>

B64Char(n) == B64Alphabet[(n % 64) + 1]

RECURSIVE base64_encode(_)
base64_encode(bs) ==
    IF Len(bs) = 0 THEN <<>>
    ELSE IF Len(bs) = 1
    THEN LET n == bs[1] * 65536
         IN  <<B64Char(n \div 262144), B64Char(n \div 4096), "=", "=">>
    ELSE IF Len(bs) = 2
    THEN LET n == bs[1] * 65536 + bs[2] * 256
         IN  <<B64Char(n \div 262144), B64Char(n \div 4096), B64Char(n \div 64), "=">>
    ELSE LET n == bs[1] * 65536 + bs[2] * 256 + bs[3]
         IN  <<B64Char(n \div 262144), B64Char(n \div 4096), B64Char(n \div 64),
               B64Char(n)>> \o base64_encode(SubSeq(bs, 4, Len(bs)))

as_bytes(t) == [i \in 1..Len(t) |-> Byte(t[i])]

\* urlencoding::encode: letters, digits and "-", "_", ".", "~" stay, every
\* other byte becomes "%" and its two capital hexadecimal digits
HexDigits == Digits \o <<"A", "B", "C", "D", "E", "F">>

IsUnreserved(c) ==
    Has(Upper, c) \/ Has(Lower, c) \/ Has(Digits, c) \/ c \in {"-", "_", ".", "~"}

RECURSIVE urlencoding_encode(_)
urlencoding_encode(t) ==
    IF Len(t) = 0 THEN <<>>
    ELSE (IF IsUnreserved(t[1]) THEN <<t[1]>>
          ELSE <<"%", HexDigits[(Byte(t[1]) \div 16) + 1],
                 HexDigits[(Byte(t[1]) % 16) + 1]>>)
         \o urlencoding_encode(Tail(t))

RECURSIVE build_headers(_, _)
\* network.rs:35-45: the enabled rows of the Headers table, trimmed
build_headers(m, es) ==
    IF Len(es) = 0 THEN m
    ELSE LET entry == es[1]
             hn == HeaderName_from_str(Trimmed(entry.key))
             hv == HeaderValue_from_str(Trimmed(entry.value))
         IN  build_headers(IF entry.enabled /\ IsSome(hn) /\ IsSome(hv)
                           THEN HeaderMap_insert(m, Unwrap(hn), Unwrap(hv))
                           ELSE m,
                           Tail(es))

RECURSIVE build_query_params(_)
\* network.rs:48-53: the enabled rows of the Params table
build_query_params(es) ==
    IF Len(es) = 0 THEN <<>>
    ELSE (IF es[1].enabled THEN <<<<es[1].key, es[1].value>>>> ELSE <<>>)
         \o build_query_params(Tail(es))

\* find_password taking the first row whose key is "password", enabled or not
find_password_any(es) ==
    LET hits == {i \in 1..Len(es) : eq_ignore_ascii_case(es[i].key, Str_password)}
    IN  IF hits = {} THEN None
        ELSE Some(es[CHOOSE i \in hits : \A j \in hits : i <= j])

\* network.rs:76-78: the first enabled row whose key is "password"
find_password(es) ==
    LET hits == {i \in 1..Len(es) :
                    es[i].enabled /\ eq_ignore_ascii_case(es[i].key, Str_password)}
    IN  IF hits = {} THEN None
        ELSE Some(es[CHOOSE i \in hits : \A j \in hits : i <= j])

\* network.rs:57-86: what one row of the Authorization table does to the map
auth_entry(m, entry, es) ==
    IF ~entry.enabled THEN m
    ELSE IF \/ eq_ignore_ascii_case(entry.key, Str_Authorization)
            \/ eq_ignore_ascii_case(entry.key, Str_Bearer)
    THEN LET hv == HeaderValue_from_str(entry.value)
         IN  IF IsSome(hv) THEN HeaderMap_insert(m, AUTHORIZATION, Unwrap(hv)) ELSE m
    ELSE IF \/ eq_ignore_ascii_case(entry.key, Str_API_Key)
            \/ eq_ignore_ascii_case(entry.key, Str_X_API_Key)
    THEN LET hn == HeaderName_from_str(entry.key)
             hv == HeaderValue_from_str(entry.value)
         IN  IF IsSome(hn) /\ IsSome(hv)
             THEN HeaderMap_insert(m, Unwrap(hn), Unwrap(hv)) ELSE m
    ELSE IF eq_ignore_ascii_case(entry.key, Str_username)
    THEN LET password_entry == find_password(es)
         IN  IF IsSome(password_entry)
             THEN LET credentials == entry.value \o <<":">> \o Unwrap(password_entry).value
                      encoded == base64_encode(as_bytes(credentials))
                      hv == HeaderValue_from_str(Str_Basic \o encoded)
                  IN  IF IsSome(hv)
                      THEN HeaderMap_insert(m, AUTHORIZATION, Unwrap(hv)) ELSE m
             ELSE m
    ELSE m

RECURSIVE build_authorization(_, _, _)
\* network.rs:56-87: the rows from k on (0-based), in table order
build_authorization(m, es, k) ==
    IF k >= Len(es) THEN m
    ELSE build_authorization(auth_entry(m, es[k + 1], es), es, k + 1)

RECURSIVE query_string(_)
\* network.rs:93-98
query_string(qs) ==
    IF Len(qs) = 0 THEN <<>>
    ELSE urlencoding_encode(qs[1][1]) \o <<"=">> \o urlencoding_encode(qs[1][2])
         \o (IF Len(qs) = 1 THEN <<>> ELSE <<"&">> \o query_string(Tail(qs)))

\* network.rs:90-100
final_url(url, qs) == IF Len(qs) = 0 THEN url ELSE url \o <<"?">> \o query_string(qs)

\* network.rs:24-109: the request that make_request hands to the transport
make_request(req) ==
    LET header_map == build_authorization(
                          build_headers(HeaderMap_new, req.headers.entries),
                          req.auth.entries, 0)
        query_params == build_query_params(req.params.entries)
        has_body == ~TrimIsEmpty(req.body)
    IN  [method  |-> req.method,
         url     |-> final_url(req.url, query_params),
         headers |-> IF has_body
                     THEN HeaderMap_append(header_map, CONTENT_TYPE, Str_application_json)
                     ELSE header_map,
         body    |-> IF has_body THEN Some(req.body) ELSE None]

\* HashMap::insert on a map held as the set of its <<key, value>> pairs
HashMap_insert(m, k, v) == {p \in m : p[1] # k} \cup {<<k, v>>}

RECURSIVE to_pairs_from(_, _)
to_pairs_from(m, es) ==
    IF Len(es) = 0 THEN m
    ELSE to_pairs_from(IF es[1].enabled THEN HashMap_insert(m, es[1].key, es[1].value)
                       ELSE m,
                       Tail(es))

\* KeyValueEntries::to_pairs
to_pairs(t) == to_pairs_from({}, t.entries)

-----------------------------------------------------------------------------
(* run_app (src/src/main.rs): one iteration polls for a key and handles it *)
(* (pc = "poll"), then polls the channel and tests running (pc = "recv").  *)

tableVars == <<headers, params, authorization>>
responseVars == <<response_text, response_status, response_scroll>>
asyncVars == <<tasks, chan, received>>

Init ==
    /\ running = TRUE
    /\ input_mode = "Normal"
    /\ focused_pane = "Url"
    /\ method = "GET"
    /\ url_input = <<>>
    /\ active_request_tab = "Headers"
    /\ headers = KeyValueEntries_new
    /\ params = KeyValueEntries_new
    /\ authorization = KeyValueEntries_new
    /\ body_input = TextArea_default
    /\ response_text = None
    /\ response_status = None
    /\ response_scroll = 0
    /\ history = <<>>
    /\ history_index = None
    /\ validation_error = None
    /\ pc = "poll"
    /\ tasks = <<>>
    /\ chan = <<>>
    /\ received = 0

\* a key event has been read in the given mode; the handler runs next
KeyIn(mode) ==
    /\ pc = "poll"
    /\ input_mode = mode
    /\ pc' = "recv"

\* event::poll timed out, the event is no key, or no arm handles the key
NoKey ==
    /\ pc = "poll"
    /\ pc' = "recv"
    /\ UNCHANGED <<appVars, asyncVars>>

\* Normal mode, Char('q')
NormalQ ==
    /\ KeyIn("Normal")
    /\ running' = FALSE
    /\ UNCHANGED <<input_mode, focused_pane, requestVars, active_request_tab,
                   responseVars, history, history_index, validation_error, asyncVars>>

\* Normal mode, Tab
NormalTab ==
    /\ KeyIn("Normal")
    /\ focused_pane' = next_pane(focused_pane)
    /\ UNCHANGED <<running, input_mode, requestVars, active_request_tab,
                   responseVars, history, history_index, validation_error, asyncVars>>

\* NormalI that also leaves the browsing of the history: the cursor is
\* reset when editing starts
NormalI_live ==
    /\ KeyIn("Normal")
    /\ input_mode' = "Editing"
    /\ history_index' = None
    /\ UNCHANGED <<running, focused_pane, requestVars, active_request_tab,
                   responseVars, history, validation_error, asyncVars>>

\* Normal mode, Char('i')
NormalI ==
    /\ KeyIn("Normal")
    /\ input_mode' = "Editing"
    /\ UNCHANGED <<running, focused_pane, requestVars, active_request_tab,
                   responseVars, history, history_index, validation_error, asyncVars>>

\* NormalEnter that submits only a body that validates: with a validation
\* error the key does nothing
\* NormalEnter leaving the response text as it was
NormalEnter_silent ==
    /\ KeyIn("Normal")
    /\ save_to_history
    /\ tasks' = Append(tasks, [req |-> RequestCopy, st |-> "flight", result |-> None])
    /\ UNCHANGED <<running, input_mode, focused_pane, requestVars, active_request_tab,
                   responseVars, validation_error, chan, received>>

\* NormalEnter clearing the status and the scroll offset with the text
NormalEnter_resets ==
    /\ KeyIn("Normal")
    /\ save_to_history
    /\ response_text' = Some(Str_Loading)
    /\ response_status' = None
    /\ response_scroll' = 0
    /\ tasks' = Append(tasks, [req |-> RequestCopy, st |-> "flight", result |-> None])
    /\ UNCHANGED <<running, input_mode, focused_pane, requestVars, active_request_tab,
                   validation_error, chan, received>>

NormalEnter_validated ==
    /\ KeyIn("Normal")
    /\ IF validation_error = None
       THEN /\ save_to_history
            /\ response_text' = Some(Str_Loading)
            /\ tasks' = Append(tasks,
                               [req |-> RequestCopy, st |-> "flight", result |-> None])
       ELSE UNCHANGED <<history, history_index, response_text, tasks>>
    /\ UNCHANGED <<running, input_mode, focused_pane, requestVars, active_request_tab,
                   response_status, response_scroll, validation_error, chan, received>>

\* Normal mode, Enter: the submit
NormalEnter ==
    /\ KeyIn("Normal")
    /\ save_to_history
    /\ response_text' = Some(Str_Loading)
    /\ tasks' = Append(tasks, [req |-> RequestCopy, st |-> "flight", result |-> None])
    /\ UNCHANGED <<running, input_mode, focused_pane, requestVars, active_request_tab,
                   response_status, response_scroll, validation_error, chan, received>>

\* Normal mode, Right or Char(' ')
NormalRight ==
    /\ KeyIn("Normal")
    /\ method' = IF focused_pane = "Method" THEN next_method(method) ELSE method
    /\ active_request_tab' =
           IF focused_pane # "Method" /\ focused_pane = "RequestDetails"
           THEN next_tab(active_request_tab) ELSE active_request_tab
    /\ UNCHANGED <<running, input_mode, focused_pane, url_input, tableVars, body_input,
                   responseVars, history, history_index, validation_error, asyncVars>>

\* Normal mode, Left
NormalLeft ==
    /\ KeyIn("Normal")
    /\ method' = IF focused_pane = "Method" THEN prev_method(method) ELSE method
    /\ active_request_tab' =
           IF focused_pane # "Method" /\ focused_pane = "RequestDetails"
           THEN prev_tab(active_request_tab) ELSE active_request_tab
    /\ UNCHANGED <<running, input_mode, focused_pane, url_input, tableVars, body_input,
                   responseVars, history, history_index, validation_error, asyncVars>>

\* u16::saturating_sub(1) / saturating_add(1)
saturating_sub1(n) == IF n = 0 THEN 0 ELSE n - 1
saturating_add1(n) == IF n = 65535 THEN 65535 ELSE n + 1

\* Normal mode, Up
NormalUp ==
    /\ KeyIn("Normal")
    /\ CASE focused_pane = "Url" ->
              /\ prev_history
              /\ UNCHANGED response_scroll
         [] focused_pane = "Response" ->
              /\ response_scroll' = saturating_sub1(response_scroll)
              /\ UNCHANGED <<requestVars, history_index>>
         [] focused_pane = "RequestDetails" ->
              /\ set_active_tab(kv_up(get_active_tab))
              /\ UNCHANGED <<method, url_input, body_input, history_index, response_scroll>>
         [] OTHER ->
              UNCHANGED <<requestVars, history_index, response_scroll>>
    /\ UNCHANGED <<running, input_mode, focused_pane, active_request_tab, response_text,
                   response_status, history, validation_error, asyncVars>>

\* Normal mode, Down
NormalDown ==
    /\ KeyIn("Normal")
    /\ CASE focused_pane = "Url" ->
              /\ next_history
              /\ UNCHANGED response_scroll
         [] focused_pane = "Response" ->
              /\ response_scroll' = saturating_add1(response_scroll)
              /\ UNCHANGED <<requestVars, history_index>>
         [] focused_pane = "RequestDetails" ->
              /\ set_active_tab(kv_down(get_active_tab))
              /\ UNCHANGED <<method, url_input, body_input, history_index, response_scroll>>
         [] OTHER ->
              UNCHANGED <<requestVars, history_index, response_scroll>>
    /\ UNCHANGED <<running, input_mode, focused_pane, active_request_tab, response_text,
                   response_status, history, validation_error, asyncVars>>

\* Normal mode, Ctrl-P
NormalCtrlP ==
    /\ KeyIn("Normal")
    /\ IF focused_pane = "Url" THEN prev_history
       ELSE UNCHANGED <<requestVars, history_index>>
    /\ UNCHANGED <<running, input_mode, focused_pane, active_request_tab, responseVars,
                   history, validation_error, asyncVars>>

\* Normal mode, Ctrl-N
NormalCtrlN ==
    /\ KeyIn("Normal")
    /\ IF focused_pane = "Url" THEN next_history
       ELSE UNCHANGED <<requestVars, history_index>>
    /\ UNCHANGED <<running, input_mode, focused_pane, active_request_tab, responseVars,
                   history, validation_error, asyncVars>>

\* what a key leaves alone when it only edits the body
BodyEditFrame ==
    UNCHANGED <<running, input_mode, focused_pane, method, url_input, active_request_tab,
                tableVars, responseVars, history, history_index, asyncVars>>

\* EditingBodyEsc without the Esc arm of main.rs:181-183: the key falls to
\* the catch-all arm, which hands it to the TextArea and validates
EditingBodyEsc_routed ==
    /\ KeyIn("Editing")
    /\ focused_pane = "Body"
    /\ validation_error' = validate_body(body_input)
    /\ UNCHANGED <<running, input_mode, focused_pane, requestVars, active_request_tab,
                   responseVars, history, history_index, asyncVars>>

\* Editing mode, Body pane, Esc
EditingBodyEsc ==
    /\ KeyIn("Editing")
    /\ focused_pane = "Body"
    /\ input_mode' = "Normal"
    /\ UNCHANGED <<running, focused_pane, requestVars, active_request_tab,
                   responseVars, history, history_index, validation_error, asyncVars>>

\* Editing mode, Body pane, any other key: body_input.input(key), then
\* validate_body.  edited is body_input after input has handled the key.
EditingBodyInput(edited) ==
    /\ KeyIn("Editing")
    /\ focused_pane = "Body"
    /\ body_input' = edited
    /\ validation_error' = validate_body(body_input')
    /\ BodyEditFrame

EditingBodyChar(c) == EditingBodyInput(insert_char(body_input, c))
EditingBodyEnter == EditingBodyInput(insert_newline(body_input))
EditingBodyBackspace == EditingBodyInput(delete_char(body_input))
EditingBodyLeft == EditingBodyInput(move_back(body_input))

\* what a key leaves alone when it only edits the active table
DetailsEditFrame ==
    UNCHANGED <<running, input_mode, focused_pane, method, url_input, active_request_tab,
                body_input, responseVars, history, history_index, validation_error,
                asyncVars>>

\* Editing mode, RequestDetails pane, Esc
EditingDetailsEsc ==
    /\ KeyIn("Editing")
    /\ focused_pane = "RequestDetails"
    /\ input_mode' = "Normal"
    /\ UNCHANGED <<running, focused_pane, requestVars, active_request_tab,
                   responseVars, history, history_index, validation_error, asyncVars>>

\* Editing mode, RequestDetails pane, Tab
EditingDetailsTab ==
    /\ KeyIn("Editing")
    /\ focused_pane = "RequestDetails"
    /\ set_active_tab(kv_switch_field(get_active_tab))
    /\ DetailsEditFrame

\* Editing mode, RequestDetails pane, Enter
EditingDetailsEnter ==
    /\ KeyIn("Editing")
    /\ focused_pane = "RequestDetails"
    /\ set_active_tab(kv_enter(get_active_tab))
    /\ DetailsEditFrame

\* Editing mode, RequestDetails pane, Ctrl-Delete or Ctrl-D
EditingDetailsDelete ==
    /\ KeyIn("Editing")
    /\ focused_pane = "RequestDetails"
    /\ set_active_tab(kv_delete(get_active_tab))
    /\ DetailsEditFrame

\* Editing mode, RequestDetails pane, Char(c)
EditingDetailsChar(c) ==
    /\ KeyIn("Editing")
    /\ focused_pane = "RequestDetails"
    /\ set_active_tab(kv_char(get_active_tab, c))
    /\ DetailsEditFrame

\* Editing mode, RequestDetails pane, Backspace
EditingDetailsBackspace ==
    /\ KeyIn("Editing")
    /\ focused_pane = "RequestDetails"
    /\ set_active_tab(kv_backspace(get_active_tab))
    /\ DetailsEditFrame

\* Editing mode, Method, Url or Response pane, Esc
EditingEsc ==
    /\ KeyIn("Editing")
    /\ focused_pane \notin {"Body", "RequestDetails"}
    /\ input_mode' = "Normal"
    /\ UNCHANGED <<running, focused_pane, requestVars, active_request_tab,
                   responseVars, history, history_index, validation_error, asyncVars>>

\* EditingChar with the global quit test of main.rs:69 not looking at the
\* mode: a 'q' typed in Editing mode also quits
EditingChar_quits(c) ==
    /\ KeyIn("Editing")
    /\ focused_pane \notin {"Body", "RequestDetails"}
    /\ url_input' = IF focused_pane = "Url" THEN Append(url_input, c) ELSE url_input
    /\ running' = (running /\ c # "q")
    /\ UNCHANGED <<input_mode, focused_pane, method, active_request_tab,
                   tableVars, body_input, responseVars, history, history_index,
                   validation_error, asyncVars>>

\* Editing mode, Method, Url or Response pane, Char(c)
EditingChar(c) ==
    /\ KeyIn("Editing")
    /\ focused_pane \notin {"Body", "RequestDetails"}
    /\ url_input' = IF focused_pane = "Url" THEN Append(url_input, c) ELSE url_input
    /\ UNCHANGED <<running, input_mode, focused_pane, method, active_request_tab,
                   tableVars, body_input, responseVars, history, history_index,
                   validation_error, asyncVars>>

\* Editing mode, Method, Url or Response pane, Backspace
EditingBackspace ==
    /\ KeyIn("Editing")
    /\ focused_pane \notin {"Body", "RequestDetails"}
    /\ url_input' = IF focused_pane = "Url" THEN Pop(url_input) ELSE url_input
    /\ UNCHANGED <<running, input_mode, focused_pane, method, active_request_tab,
                   tableVars, body_input, responseVars, history, history_index,
                   validation_error, asyncVars>>

\* format!("Error: {}", err_msg)
format_error(msg) == Str_Error \o msg

\* merge_response without the reset of response_status in the Err arm
merge_response_keeps_status(response) ==
    IF response.tag = "Ok"
    THEN <<Some(response.status), Some(response.body)>>
    ELSE <<response_status, Some(format_error(response.msg))>>

\* the match on the received message (main.rs:315-324), as the pair
\* <<response_status, response_text>> it leaves
\* merge_response writing the status and leaving the text as it was
merge_response_keeps_text(response) ==
    IF response.tag = "Ok"
    THEN <<Some(response.status), response_text>>
    ELSE <<None, response_text>>

merge_response(response) ==
    IF response.tag = "Ok"
    THEN <<Some(response.status), Some(response.body)>>
    ELSE <<None, Some(format_error(response.msg))>>

\* PollResponse merging only while a response is awaited: a message that
\* arrives after another has been shown is dropped (first write wins)
PollResponse_first_wins ==
    /\ pc = "recv"
    /\ IF received < Len(chan)
       THEN LET merged == merge_response(chan[received + 1])
                awaited == response_text = Some(Str_Loading)
            IN  /\ response_status' = IF awaited THEN merged[1] ELSE response_status
                /\ response_text' = IF awaited THEN merged[2] ELSE response_text
                /\ received' = received + 1
       ELSE UNCHANGED <<response_status, response_text, received>>
    /\ pc' = IF running THEN "poll" ELSE "done"
    /\ UNCHANGED <<running, input_mode, focused_pane, requestVars, active_request_tab,
                   response_scroll, history, history_index, validation_error, tasks, chan>>

\* PollResponse with rx.recv().await in place of rx.try_recv(): the loop
\* waits until a message is there
PollResponse_blocking ==
    /\ pc = "recv"
    /\ received < Len(chan)
    /\ LET merged == merge_response(chan[received + 1])
       IN  /\ response_status' = merged[1]
           /\ response_text' = merged[2]
           /\ received' = received + 1
    /\ pc' = IF running THEN "poll" ELSE "done"
    /\ UNCHANGED <<running, input_mode, focused_pane, requestVars, active_request_tab,
                   response_scroll, history, history_index, validation_error, tasks, chan>>

\* PollResponse treating a transport error as fatal: the Err arm also
\* stops the loop
\* PollResponse going back to the key poll whatever running says
PollResponse_loops ==
    /\ pc = "recv"
    /\ IF received < Len(chan)
       THEN LET merged == merge_response(chan[received + 1])
            IN  /\ response_status' = merged[1]
                /\ response_text' = merged[2]
                /\ received' = received + 1
       ELSE UNCHANGED <<response_status, response_text, received>>
    /\ pc' = "poll"
    /\ UNCHANGED <<running, input_mode, focused_pane, requestVars, active_request_tab,
                   response_scroll, history, history_index, validation_error, tasks, chan>>

PollResponse_fatal ==
    /\ pc = "recv"
    /\ IF received < Len(chan)
       THEN LET merged == merge_response(chan[received + 1])
            IN  /\ response_status' = merged[1]
                /\ response_text' = merged[2]
                /\ received' = received + 1
                /\ running' = (running /\ chan[received + 1].tag = "Ok")
       ELSE UNCHANGED <<response_status, response_text, received, running>>
    /\ pc' = IF running' THEN "poll" ELSE "done"
    /\ UNCHANGED <<input_mode, focused_pane, requestVars, active_request_tab,
                   response_scroll, history, history_index, validation_error, tasks, chan>>

\* rx.try_recv() and the merge of what it returns, then the test of running
PollResponse ==
    /\ pc = "recv"
    /\ IF received < Len(chan)
       THEN LET merged == merge_response(chan[received + 1])
            IN  /\ response_status' = merged[1]
                /\ response_text' = merged[2]
                /\ received' = received + 1
       ELSE UNCHANGED <<response_status, response_text, received>>
    /\ pc' = IF running THEN "poll" ELSE "done"
    /\ UNCHANGED <<running, input_mode, focused_pane, requestVars, active_request_tab,
                   response_scroll, history, history_index, validation_error, tasks, chan>>

\* make_request(...).await returns r in task i (0-based)
TransportReturns(i, r) ==
    /\ pc # "done"
    /\ i < Len(tasks)
    /\ tasks[i + 1].st = "flight"
    /\ tasks' = [tasks EXCEPT ![i + 1].st = "sending", ![i + 1].result = Some(r)]
    /\ UNCHANGED <<appVars, pc, chan, received>>

\* TaskSend giving up its result when the channel holds Capacity messages
TaskSend_drops_when_full(i) ==
    /\ pc # "done"
    /\ i < Len(tasks)
    /\ tasks[i + 1].st = "sending"
    /\ chan' = IF Len(chan) - received < Capacity
               THEN Append(chan, Unwrap(tasks[i + 1].result))
               ELSE chan
    /\ tasks' = [tasks EXCEPT ![i + 1].st = "done"]
    /\ UNCHANGED <<appVars, pc, received>>

\* sender.send(...).await completes in task i: it waits while the channel
\* holds Capacity messages
TaskSend(i) ==
    /\ pc # "done"
    /\ i < Len(tasks)
    /\ tasks[i + 1].st = "sending"
    /\ Len(chan) - received < Capacity
    /\ chan' = Append(chan, Unwrap(tasks[i + 1].result))
    /\ tasks' = [tasks EXCEPT ![i + 1].st = "done"]
    /\ UNCHANGED <<appVars, pc, received>>

-----------------------------------------------------------------------------
(* The specifications.  A handler carries no bound: each specification     *)
(* takes its keys from a small set and keeps the next state within its     *)
(* bounds.  All start from Init, the state App::new and main construct.    *)

BodySize(ta) == Len(get_body_text(ta))

\* Spec: the dispatch and its reconciliation.  Focus stays on the Url pane;
\* the url is edited, requests are submitted, the history is browsed, the
\* transport answers in any order or never, and the loop merges what arrives.
UrlChars == {"q"}

Within ==
    /\ Len(url_input) <= MaxUrl
    /\ Len(history) <= MaxHistory

Next ==
    \/ NoKey /\ Within'
    \/ NormalQ /\ Within'
    \/ NormalI /\ Within'
    \/ NormalEnter /\ Within'
    \/ NormalCtrlP /\ Within'
    \/ NormalCtrlN /\ Within'
    \/ EditingEsc /\ Within'
    \/ \E c \in UrlChars : EditingChar(c) /\ Within'
    \/ EditingBackspace /\ Within'
    \/ PollResponse /\ Within'
    \/ \E i \in 0..(MaxHistory - 1), r \in TransportResults :
           TransportReturns(i, r) /\ Within'
    \/ \E i \in 0..(MaxHistory - 1) : TaskSend(i) /\ Within'

Spec == Init /\ [][Next]_vars

\* SpecRequest: composing a request.  Every pane is visited and each field
\* of the request is edited (method, url, the rows of each table, the body);
\* the request is submitted and recalled from the history.  No dispatch
\* answers.
BodyChars == {"{"}

TotalRows == Len(headers.entries) + Len(params.entries) + Len(authorization.entries)

\* how far the request is from the one App::new builds
Edits ==
    (IF method = "GET" THEN 0 ELSE 1) + Len(url_input) + TotalRows
    + BodySize(body_input)

WithinRequest ==
    /\ Edits <= MaxEdits
    /\ method \in {"GET", "POST"}
    /\ Len(history) <= MaxSaved

NextRequest ==
    \/ NormalTab /\ WithinRequest'
    \/ NormalI /\ WithinRequest'
    \/ NormalEnter /\ WithinRequest'
    \/ NormalRight /\ WithinRequest'
    \/ NormalLeft /\ WithinRequest'
    \/ NormalCtrlP /\ WithinRequest'
    \/ NormalCtrlN /\ WithinRequest'
    \/ EditingEsc /\ WithinRequest'
    \/ \E c \in UrlChars : EditingChar(c) /\ WithinRequest'
    \/ EditingBackspace /\ WithinRequest'
    \/ EditingBodyEsc /\ WithinRequest'
    \/ \E c \in BodyChars : EditingBodyChar(c) /\ WithinRequest'
    \/ EditingBodyEnter /\ WithinRequest'
    \/ EditingBodyBackspace /\ WithinRequest'
    \/ EditingDetailsEsc /\ WithinRequest'
    \/ EditingDetailsEnter /\ WithinRequest'
    \/ PollResponse /\ WithinRequest'

SpecRequest == Init /\ [][NextRequest]_vars

\* SpecDetails: the key-value editor.  Focus moves from the Url pane to the
\* RequestDetails pane and stays; the three tabs are visited and the active
\* table is navigated and edited with every key the pane handles.
FieldChars == {"a"}

RECURSIVE EntryChars(_)
EntryChars(es) ==
    IF Len(es) = 0 THEN 0
    ELSE Len(es[1].key) + Len(es[1].value) + EntryChars(Tail(es))

Cells ==
    TotalRows + EntryChars(headers.entries) + EntryChars(params.entries)
    + EntryChars(authorization.entries)

WithinDetails ==
    /\ Cells <= MaxCells
    /\ focused_pane \in {"Url", "RequestDetails"}

NextDetails ==
    \/ NormalTab /\ WithinDetails'
    \/ NormalI /\ WithinDetails'
    \/ NormalRight /\ WithinDetails'
    \/ NormalLeft /\ WithinDetails'
    \/ NormalUp /\ WithinDetails'
    \/ NormalDown /\ WithinDetails'
    \/ EditingEsc /\ WithinDetails'
    \/ EditingDetailsEsc /\ WithinDetails'
    \/ EditingDetailsTab /\ WithinDetails'
    \/ EditingDetailsEnter /\ WithinDetails'
    \/ EditingDetailsDelete /\ WithinDetails'
    \/ \E c \in FieldChars : EditingDetailsChar(c) /\ WithinDetails'
    \/ EditingDetailsBackspace /\ WithinDetails'
    \/ PollResponse /\ WithinDetails'

SpecDetails == Init /\ [][NextDetails]_vars

\* SpecRecall: recalling saved bodies.  Focus goes round the panes; the body
\* is edited on the Body pane, requests are submitted, and the history is
\* browsed in both directions from the Url pane.  No dispatch answers.
WithinRecall ==
    /\ BodySize(body_input) <= MaxBody
    /\ Len(history) <= MaxRecall

NextRecall ==
    \/ NormalTab /\ WithinRecall'
    \/ NormalI /\ WithinRecall'
    \/ NormalEnter /\ WithinRecall'
    \/ NormalCtrlP /\ WithinRecall'
    \/ NormalCtrlN /\ WithinRecall'
    \/ EditingEsc /\ WithinRecall'
    \/ EditingBodyEsc /\ WithinRecall'
    \/ \E c \in BodyChars : EditingBodyChar(c) /\ WithinRecall'
    \/ EditingBodyEnter /\ WithinRecall'
    \/ EditingBodyBackspace /\ WithinRecall'
    \/ PollResponse /\ WithinRecall'

SpecRecall == Init /\ [][NextRecall]_vars

\* SpecQuit: leaving the loop.  Focus goes round the five panes in both
\* modes, 'q' is pressed in Normal mode and typed in Editing mode, requests
\* are submitted and the transport answers, fails or stays silent.  The
\* loop thread is scheduled: once a key is handled, the poll of the channel
\* that ends the iteration is taken (WF on PollResponse).
WithinQuit ==
    /\ Len(url_input) <= MaxTyped
    /\ Len(tasks) <= MaxFlight

NextQuit ==
    \/ NoKey /\ WithinQuit'
    \/ NormalQ /\ WithinQuit'
    \/ NormalTab /\ WithinQuit'
    \/ NormalI /\ WithinQuit'
    \/ NormalEnter /\ WithinQuit'
    \/ EditingEsc /\ WithinQuit'
    \/ EditingBodyEsc /\ WithinQuit'
    \/ EditingDetailsEsc /\ WithinQuit'
    \/ \E c \in UrlChars : EditingChar(c) /\ WithinQuit'
    \/ PollResponse /\ WithinQuit'
    \/ \E i \in 0..(MaxFlight - 1), r \in TransportResults :
           TransportReturns(i, r) /\ WithinQuit'
    \/ \E i \in 0..(MaxFlight - 1) : TaskSend(i) /\ WithinQuit'

SpecQuit == Init /\ [][NextQuit]_vars /\ WF_vars(PollResponse)

\* SpecMethod: choosing the method.  Focus goes round the panes in both
\* modes and Right, Space and Left are pressed on each of them, so that the
\* method cycles on the Method pane and the tab on the RequestDetails pane.
NextMethod ==
    \/ NormalTab
    \/ NormalI
    \/ NormalRight
    \/ NormalLeft
    \/ EditingEsc
    \/ EditingBodyEsc
    \/ EditingDetailsEsc
    \/ PollResponse

SpecMethod == Init /\ [][NextMethod]_vars

\* SpecTransport: what make_request builds.  make_request is a function of
\* the tables it is given, and KeyValueEntries has rows of either flag
\* (toggle_enabled, key_value.rs:64-68), so the request starts with tables
\* drawn from the rows below, enabled or not; it is submitted as it is and
\* the dispatches are answered and merged.
HeaderRows ==
    {KeyValueEntry(k, <<"1">>, e) : k \in {<<"a">>, <<" ", "A">>}, e \in BOOLEAN}

ParamRows ==
    {KeyValueEntry(<<"k">>, v, e) : v \in {<<"1">>, <<" ">>}, e \in BOOLEAN}

AuthRows ==
    {KeyValueEntry(k, <<k[1]>>, e) :
        k \in {Str_Authorization, Str_X_API_Key, Str_username, Str_password},
        e \in BOOLEAN}

\* the tables of at most n rows taken from rows, the selection on row 0
TablesOf(rows, n) ==
    {[entries |-> es, focused_index |-> 0, focused_field |-> "Key"] :
        es \in UNION {[1..k -> rows] : k \in 0..n}}

InitTransport ==
    /\ running = TRUE
    /\ input_mode = "Normal"
    /\ focused_pane = "Url"
    /\ method = "GET"
    /\ url_input = <<>>
    /\ active_request_tab = "Headers"
    /\ headers \in TablesOf(HeaderRows, MaxRows)
    /\ params \in TablesOf(ParamRows, MaxRows - Len(headers.entries))
    /\ authorization \in
           TablesOf(AuthRows, MaxRows - Len(headers.entries) - Len(params.entries))
    /\ body_input = TextArea_default
    /\ response_text = None
    /\ response_status = None
    /\ response_scroll = 0
    /\ history = <<>>
    /\ history_index = None
    /\ validation_error = None
    /\ pc = "poll"
    /\ tasks = <<>>
    /\ chan = <<>>
    /\ received = 0

WithinTransport == Len(history) <= MaxSaved

NextTransport ==
    \/ NormalEnter /\ WithinTransport'
    \/ PollResponse /\ WithinTransport'
    \/ \E i \in 0..(MaxSaved - 1), r \in TransportResults :
           TransportReturns(i, r) /\ WithinTransport'
    \/ \E i \in 0..(MaxSaved - 1) : TaskSend(i) /\ WithinTransport'

SpecTransport == InitTransport /\ [][NextTransport]_vars

\* SpecAuth: what make_request builds from the Authorization table alone.
\* The table starts with up to MaxAuthRows of the rows above, in any order,
\* so that rows of all three patterns meet; the other tables are empty.
InitAuth ==
    /\ running = TRUE
    /\ input_mode = "Normal"
    /\ focused_pane = "Url"
    /\ method = "GET"
    /\ url_input = <<>>
    /\ active_request_tab = "Headers"
    /\ headers = KeyValueEntries_new
    /\ params = KeyValueEntries_new
    /\ authorization \in TablesOf(AuthRows, MaxAuthRows)
    /\ body_input = TextArea_default
    /\ response_text = None
    /\ response_status = None
    /\ response_scroll = 0
    /\ history = <<>>
    /\ history_index = None
    /\ validation_error = None
    /\ pc = "poll"
    /\ tasks = <<>>
    /\ chan = <<>>
    /\ received = 0

NextAuth ==
    \/ NormalEnter /\ WithinTransport'
    \/ PollResponse /\ WithinTransport'
    \/ \E i \in 0..(MaxSaved - 1), r \in TransportResults :
           TransportReturns(i, r) /\ WithinTransport'
    \/ \E i \in 0..(MaxSaved - 1) : TaskSend(i) /\ WithinTransport'

SpecAuth == InitAuth /\ [][NextAuth]_vars

\* SpecResponse: the response pane.  Focus goes round the panes, the
\* response is scrolled on the Response pane, requests are submitted from
\* any pane and their results are merged.
WithinResponse ==
    /\ response_scroll <= MaxScroll
    /\ Len(tasks) <= MaxFlight

NextResponse ==
    \/ NormalTab /\ WithinResponse'
    \/ NormalUp /\ WithinResponse'
    \/ NormalDown /\ WithinResponse'
    \/ NormalEnter /\ WithinResponse'
    \/ PollResponse /\ WithinResponse'
    \/ \E i \in 0..(MaxFlight - 1), r \in TransportResults :
           TransportReturns(i, r) /\ WithinResponse'
    \/ \E i \in 0..(MaxFlight - 1) : TaskSend(i) /\ WithinResponse'

SpecResponse == Init /\ [][NextResponse]_vars

\* SpecInbox: the channel under load.  More requests are submitted than the
\* channel holds and the loop goes on polling without a quit.  The transport
\* answers the dispatches in the order they were submitted, the first with
\* a response or an error and the others with a response, and the channel
\* serves the senders in the order they asked, as tokio's channel does.
ReturnsInOrder(i, r) ==
    /\ i < Len(tasks)
    /\ \A j \in 1..i : tasks[j].st # "flight"
    /\ i > 0 => r.tag = "Ok"
    /\ TransportReturns(i, r)

SendsInOrder ==
    \E i \in 0..(MaxDispatch - 1) :
        /\ i < Len(tasks)
        /\ \A j \in 1..i : tasks[j].st # "sending"
        /\ TaskSend(i)

WithinInbox == Len(tasks) <= MaxDispatch

NextInbox ==
    \/ NoKey /\ WithinInbox'
    \/ NormalEnter /\ WithinInbox'
    \/ PollResponse /\ WithinInbox'
    \/ \E i \in 0..(MaxDispatch - 1), r \in TransportResults :
           ReturnsInOrder(i, r) /\ WithinInbox'
    \/ SendsInOrder /\ WithinInbox'

\* the loop keeps iterating and a sender that has room sends
SpecInbox ==
    /\ Init /\ [][NextInbox]_vars
    /\ WF_vars(NoKey) /\ WF_vars(PollResponse) /\ WF_vars(SendsInOrder)

-----------------------------------------------------------------------------
(* The claims.                                                             *)

\* the step in which the loop handles a submit: a dispatch task is spawned
SubmitStep == pc = "poll" /\ Len(tasks') = Len(tasks) + 1

\* the step in which the loop takes a message out of the channel
MergeStep == received' = received + 1

\* C1: in every reachable state each of the three tables has
\* 0 <= focused_index <= entries.length.
C1_FocusedIndexInRange ==
    \A t \in {headers, params, authorization} :
        0 <= t.focused_index /\ t.focused_index <= Len(t.entries)

\* C2: every submission has its history entry and its dispatch, and once
\* the results of all submitted dispatches have been merged the response
\* status and text are those of the message that entered the channel last,
\* whichever submission it answers.
C2_LastWriteWins ==
    /\ Len(tasks) = Len(history)
    /\ (Len(history) >= 2 /\ Len(chan) = Len(history) /\ received = Len(chan)) =>
           LET last == chan[Len(chan)]
           IN  IF last.tag = "Ok"
               THEN /\ response_status = Some(last.status)
                    /\ response_text = Some(last.body)
               ELSE /\ response_status = None
                    /\ response_text = Some(Str_Error \o last.msg)

\* C2 witness: two submissions, both answered and merged, the answer to
\* the first having entered the channel after the answer to the second.
C2_Witness ==
    /\ Len(history) = 2 /\ Len(chan) = 2 /\ received = 2
    /\ chan[1].tag = "Err" /\ chan[2].tag = "Ok"
    /\ tasks[1].result = Some(chan[2])
    /\ tasks[2].result = Some(chan[1])
    /\ response_status = Some(200)

\* C3: the loop is never blocked: while it has not returned it can take
\* its next step, whatever the dispatches in flight and the channel hold.
\* When polling it can pass on (no key) and handle a key; after the key it
\* can poll the channel.
C3_LoopNeverBlocks ==
    /\ pc = "poll" =>
           /\ ENABLED NoKey
           /\ input_mode = "Normal" => ENABLED NormalEnter /\ ENABLED NormalQ
           /\ input_mode = "Editing" => ENABLED EditingEsc
    /\ pc = "recv" => ENABLED PollResponse

\* C3 witness: right after the second submit, two dispatches in flight
\* that have not answered and an empty channel.
C3_Witness ==
    /\ pc = "recv"
    /\ Len(tasks) = 2
    /\ tasks[1].st = "flight" /\ tasks[2].st = "flight"
    /\ Inbox = <<>>
    /\ response_text = Some(Str_Loading)

\* C4: a submit appends exactly one entry, which holds the method, url,
\* headers, params, authorization and body of the request at that moment,
\* and leaves the request as it was.
C4_SubmitSnapshots ==
    [][SubmitStep =>
          /\ history' = Append(history,
                               [method |-> method, url |-> url_input,
                                headers |-> headers, params |-> params,
                                auth |-> authorization,
                                body |-> Join(body_input.lines)])
          /\ UNCHANGED requestVars]_vars

\* C4 witness: a submit has just been handled with a row in the headers
\* table, and the entry pushed holds it.
C4_Witness ==
    /\ pc = "recv"
    /\ Len(history) = 1
    /\ Len(headers.entries) = 1
    /\ history[1].headers = headers
    /\ history[1].params = params
    /\ response_text = Some(Str_Loading)

\* C5: merging a successful result sets status = Some(code) and
\* text = Some(body); merging a failure sets status = None and
\* text = Some("Error: " + message).
C5_MergeSetsResponse ==
    [][MergeStep =>
          LET m == chan[received + 1]
          IN  IF m.tag = "Ok"
              THEN /\ response_status' = Some(m.status)
                   /\ response_text' = Some(m.body)
              ELSE /\ response_status' = None
                   /\ response_text' = Some(Str_Error \o m.msg)]_vars

\* C5 witness: a failure merged after a success: the status of the
\* success has been cleared.
C5_Witness ==
    /\ received = 2
    /\ chan[1].tag = "Ok" /\ chan[2].tag = "Err"
    /\ response_status = None
    /\ response_text = Some(<<"E", "r", "r", "o", "r", ":", " ", "x">>)

\* C6: merging a result changes nothing but the response status and text.
C6_MergeFrame ==
    [][MergeStep =>
          UNCHANGED <<method, url_input, headers, params, authorization,
                      active_request_tab, body_input, validation_error, history,
                      history_index, focused_pane, input_mode, response_scroll,
                      running>>]_vars

\* C6 witness: a failure has been merged while the url was being edited
\* after the submit: the edit is kept and the loop goes on.
C6_Witness ==
    /\ received = 1 /\ Len(history) = 1
    /\ chan[1].tag = "Err"
    /\ history[1].url = <<>>
    /\ url_input = <<"q">>
    /\ input_mode = "Editing"
    /\ response_status = None /\ response_text # Some(Str_Loading)
    /\ pc = "poll" /\ running

\* C7: at the end of every loop iteration validation_error is None exactly
\* when the body text is empty after trimming or parses as JSON.
C7_ValidationFresh ==
    pc = "poll" =>
        LET text == Join(body_input.lines)
        IN  (validation_error = None) <=> (TrimIsEmpty(text) \/ JsonParses(text))

\* C8: the history is append-only: over every step the old list is a
\* prefix of the new one, and it grows only in a submit, by one entry.
C8_HistoryAppendOnly ==
    [][/\ IsPrefix(history, history')
       /\ history' # history => SubmitStep /\ Len(history') = Len(history) + 1]_vars

\* C8 witness: two entries, the older one being browsed, a result merged.
C8_Witness ==
    /\ Len(history) = 2
    /\ history_index = Some(0)
    /\ history[1] # history[2]
    /\ received >= 1

\* C9: every submit leaves the history cursor at None, and a browse_prev
\* with the cursor at None lands on the most recent entry.
C9_SubmitResetsCursor ==
    [][/\ SubmitStep => history_index' = None
       /\ (NormalCtrlP /\ history_index = None /\ Len(history) > 0) =>
              history_index' = Some(Len(history) - 1)]_vars

\* C9 witness: a second submit has just been handled and the cursor is
\* None.
C9_Witness ==
    /\ pc = "recv"
    /\ Len(history) = 2
    /\ history[1].url = <<"q">> /\ history[2].url = <<"q">>
    /\ url_input = <<"q">>
    /\ history_index = None
    /\ response_text = Some(Str_Loading)

\* the index prev_history moves the cursor to
PrevIndex ==
    IF history_index = None THEN Len(history) - 1
    ELSE IF Unwrap(history_index) > 0 THEN Unwrap(history_index) - 1
    ELSE 0

\* C10: with a non-empty history, browse_prev moves the cursor to the last
\* index from None and to i - 1 from i > 0, and the method, url, tables and
\* body become exactly those of the entry at the new cursor.
C10_BrowsePrevLoads ==
    [][(NormalCtrlP /\ focused_pane = "Url" /\ Len(history) > 0
        /\ history_index # Some(0)) =>
          LET e == history[PrevIndex + 1]
          IN  /\ history_index' = Some(PrevIndex)
              /\ method' = e.method
              /\ url_input' = e.url
              /\ headers' = e.headers
              /\ params' = e.params
              /\ authorization' = e.auth
              /\ Join(body_input'.lines) = e.body]_vars

\* the request data with the body as text: what browsing may load or leave
RequestFieldsUnchanged ==
    /\ UNCHANGED <<method, url_input, headers, params, authorization>>
    /\ get_body_text(body_input') = get_body_text(body_input)

\* C11: browse_prev with the cursor already at index 0 is a no-op: the
\* cursor stays 0 and method, url, the three tables and the body are left
\* as they were.
C11_BrowsePrevAtOldestNoOp ==
    [][(NormalCtrlP /\ focused_pane = "Url" /\ history_index = Some(0)) =>
          /\ history_index' = Some(0)
          /\ RequestFieldsUnchanged]_vars

\* C12: browse_next with the cursor None changes nothing; with the cursor
\* at the last index it sets the cursor to None and reloads nothing; with
\* any other cursor i it sets the cursor to i + 1 and method, url, the
\* tables and the body become those of the entry at i + 1.
C12_BrowseNext ==
    [][(NormalCtrlN /\ focused_pane = "Url") =>
          IF history_index = None
          THEN UNCHANGED appVars
          ELSE IF Unwrap(history_index) = Len(history) - 1
          THEN /\ history_index' = None
               /\ RequestFieldsUnchanged
          ELSE LET e == history[Unwrap(history_index) + 2]
               IN  /\ history_index' = Some(Unwrap(history_index) + 1)
                   /\ method' = e.method
                   /\ url_input' = e.url
                   /\ headers' = e.headers
                   /\ params' = e.params
                   /\ authorization' = e.auth
                   /\ get_body_text(body_input') = e.body]_vars

\* C13: 'q' in Normal mode sets running to FALSE, from any pane and with
\* any dispatches in flight; running becomes FALSE through no other step
\* (not a 'q' typed in Editing mode, not a transport failure); once it is
\* FALSE no further key is read and the loop returns at the end of the
\* iteration.
C13_QuitOnlyByQ ==
    /\ [][/\ NormalQ => ~running'
          /\ (running /\ ~running') => NormalQ
          /\ ~running => pc' # "poll"]_vars
    /\ (~running ~> pc = "done")

\* C13 witness: the loop has returned after 'q' on the Response pane, with
\* a 'q' typed into the url before, one dispatch that failed and one still
\* in flight.
C13_Witness ==
    /\ pc = "done" /\ ~running
    /\ focused_pane = "Response"
    /\ url_input = <<"q">>
    /\ Len(tasks) = 2
    /\ tasks[1].st = "done" /\ chan[1].tag = "Err"
    /\ tasks[2].st = "flight"

\* the step in which Esc is handled in Editing mode, whatever the pane
EscStep == EditingEsc \/ EditingBodyEsc \/ EditingDetailsEsc

\* C14: in Editing mode Esc is handled from every pane and in every state
\* of the tables and the body; it sets the mode to Normal and changes
\* neither the focused pane nor the request data (the body buffer
\* included).
C14_EscLeavesEditing ==
    /\ []((pc = "poll" /\ input_mode = "Editing") => ENABLED EscStep)
    /\ [][EscStep =>
             /\ input_mode' = "Normal"
             /\ UNCHANGED <<focused_pane, requestVars>>]_vars

\* C14 witness: back in Normal mode on the Body pane with the text typed
\* there still in the buffer.
C14_Witness ==
    /\ pc = "recv"
    /\ input_mode = "Normal"
    /\ focused_pane = "Body"
    /\ body_input = [lines |-> << <<"{">> >>, row |-> 0, col |-> 1]
    /\ validation_error # None
    /\ history = <<>>

\* the ring Method -> Url -> RequestDetails -> Body -> Response -> Method
TabRing ==
    [p \in {"Method", "Url", "RequestDetails", "Body", "Response"} |->
        CASE p = "Method" -> "Url"
          [] p = "Url" -> "RequestDetails"
          [] p = "RequestDetails" -> "Body"
          [] p = "Body" -> "Response"
          [] p = "Response" -> "Method"]

\* C15: Tab in Normal mode is handled from every pane and moves the focus
\* one place along the ring Method -> Url -> RequestDetails -> Body ->
\* Response -> Method, so five Tabs from the focused pane lead back to it.
C15_TabRing ==
    /\ []((pc = "poll" /\ input_mode = "Normal") =>
             /\ ENABLED NormalTab
             /\ focused_pane \in DOMAIN TabRing
             /\ next_pane(next_pane(next_pane(next_pane(next_pane(focused_pane)))))
                    = focused_pane)
    /\ [][NormalTab => focused_pane' = TabRing[focused_pane]]_vars

\* C15 witness: focus on the Method pane, which only the Tab on the
\* Response pane leads to: the ring has been followed to its wrap-around.
C15_Witness ==
    /\ pc = "recv"
    /\ input_mode = "Normal"
    /\ focused_pane = "Method"
    /\ url_input = <<>> /\ tasks = <<>>

\* C16: Tab and 'i' in Normal mode and Esc in Editing mode change the pane
\* or the mode and nothing else: method, url, the three tables, the active
\* tab, the body buffer, the validation result, the response and the
\* history with its cursor are unchanged.
C16_PaneModeFrame ==
    [][(\/ NormalTab \/ NormalI \/ EscStep
        \/ focused_pane' # focused_pane
        \/ input_mode' # input_mode) =>
          UNCHANGED <<method, url_input, headers, params, authorization,
                      active_request_tab, body_input, validation_error,
                      response_text, response_status, response_scroll,
                      history, history_index>>]_vars

\* C16 witness: 'i' has just been handled on the RequestDetails pane while
\* a saved request with a header row is being browsed and its response is
\* awaited.
C16_Witness ==
    /\ pc = "recv"
    /\ input_mode = "Editing"
    /\ focused_pane = "RequestDetails"
    /\ history_index = Some(0)
    /\ Len(headers.entries) = 1
    /\ history[1].headers = headers
    /\ response_text = Some(Str_Loading)

\* the step in which a key read while the RequestDetails pane has focus is
\* handled, in either mode
DetailsKeyStep == pc = "poll" /\ pc' = "recv" /\ focused_pane = "RequestDetails"

\* C17: every key handled while the RequestDetails pane has focus leaves
\* the two tables that are not the active tab unchanged (entries,
\* focused_index, focused_field), and leaves the url and the body unchanged.
C17_OnlyActiveTable ==
    [][DetailsKeyStep =>
          /\ active_request_tab # "Headers" => headers' = headers
          /\ active_request_tab # "Params" => params' = params
          /\ active_request_tab # "Authorization" => authorization' = authorization
          /\ UNCHANGED <<url_input, body_input>>]_vars

\* C17 witness: a row has been added to the params table in Editing mode
\* while the headers table holds a row with a key; the headers row is as
\* it was.
C17_Witness ==
    /\ pc = "recv"
    /\ input_mode = "Editing"
    /\ focused_pane = "RequestDetails"
    /\ active_request_tab = "Params"
    /\ Len(params.entries) = 1 /\ params.focused_index = 1
    /\ Len(headers.entries) = 1 /\ headers.entries[1].key = <<"a">>
    /\ headers.focused_index = 0

\* C18: typing a character c in Editing mode on the RequestDetails pane
\* appends c to the focused field of the entry at focused_index, after one
\* new empty enabled entry has been added at the end when the cursor is not
\* on a real row; the character is never lost, no other entry changes and
\* focused_index and focused_field are unchanged.
C18_TypeCharAppends ==
    [][\A c \in FieldChars :
          EditingDetailsChar(c) =>
              LET t  == get_active_tab
                  i  == t.focused_index
                  es == IF i < Len(t.entries) THEN t.entries
                        ELSE Append(t.entries,
                                    [key |-> <<>>, value |-> <<>>, enabled |-> TRUE])
                  t2 == get_active_tab'
              IN  /\ t2.focused_index = i
                  /\ t2.focused_field = t.focused_field
                  /\ Len(t2.entries) = Len(es)
                  /\ i < Len(t2.entries)
                  /\ \A k \in 1..Len(es) :
                         t2.entries[k] =
                             IF k # i + 1 THEN es[k]
                             ELSE IF t.focused_field = "Key"
                             THEN [es[k] EXCEPT !.key = Append(@, c)]
                             ELSE [es[k] EXCEPT !.value = Append(@, c)]]_vars

\* C19: in Normal mode on the RequestDetails pane, Up decrements the active
\* table's focused_index unless it is 0, and Down increments it unless it
\* equals entries.length, where Down is a no-op; neither key changes the
\* entries or focused_field.
C19_UpDownClamped ==
    [][/\ (NormalUp /\ focused_pane = "RequestDetails") =>
              get_active_tab' =
                  [get_active_tab EXCEPT !.focused_index = IF @ = 0 THEN 0 ELSE @ - 1]
       /\ (NormalDown /\ focused_pane = "RequestDetails") =>
              LET t == get_active_tab
              IN  /\ get_active_tab'.entries = t.entries
                  /\ get_active_tab'.focused_field = t.focused_field
                  /\ t.focused_index < Len(t.entries) =>
                         get_active_tab'.focused_index = t.focused_index + 1
                  /\ t.focused_index = Len(t.entries) =>
                         get_active_tab'.focused_index = t.focused_index]_vars

\* C20: Enter in Editing mode on the RequestDetails pane adds one empty
\* enabled entry at the end when the cursor is on the new-row slot and none
\* when it is on a real row; it sets focused_field to Key and focused_index
\* to min(old focused_index + 1, new entries.length); no existing entry
\* changes.
C20_CommitRowAdvances ==
    [][EditingDetailsEnter =>
          LET t  == get_active_tab
              t2 == get_active_tab'
          IN  /\ t.focused_index = Len(t.entries) =>
                     t2.entries = Append(t.entries,
                                         [key |-> <<>>, value |-> <<>>, enabled |-> TRUE])
              /\ t.focused_index < Len(t.entries) => t2.entries = t.entries
              /\ IsPrefix(t.entries, t2.entries)
              /\ t2.focused_field = "Key"
              /\ t2.focused_index =
                     IF t.focused_index + 1 <= Len(t2.entries)
                     THEN t.focused_index + 1 ELSE Len(t2.entries)]_vars

\* C20 witness: after a key was typed into the first row, Enter moved to
\* the new-row slot and a second Enter added an empty row there: two rows,
\* the first as typed, the cursor past the second on the Key field.
C20_Witness ==
    /\ pc = "recv"
    /\ input_mode = "Editing"
    /\ focused_pane = "RequestDetails"
    /\ active_request_tab = "Headers"
    /\ headers = [entries |-> << [key |-> <<"a">>, value |-> <<>>, enabled |-> TRUE],
                                [key |-> <<>>, value |-> <<>>, enabled |-> TRUE] >>,
                  focused_index |-> 2, focused_field |-> "Key"]

\* C21: Ctrl-D / Ctrl-Delete in Editing mode on the RequestDetails pane
\* removes exactly the entry at focused_index when that is a real row, the
\* other entries keeping their order, and changes nothing on the new-row
\* slot or an empty table; after a removal that leaves the table non-empty
\* focused_index designates an existing row.
C21_DeleteRow ==
    [][EditingDetailsDelete =>
          LET t  == get_active_tab
              i  == t.focused_index
              t2 == get_active_tab'
          IN  IF i < Len(t.entries)
              THEN /\ t2.entries = SubSeq(t.entries, 1, i)
                                       \o SubSeq(t.entries, i + 2, Len(t.entries))
                   /\ t2.focused_field = t.focused_field
                   /\ t2.entries # <<>> => t2.focused_index < Len(t2.entries)
              ELSE t2 = t]_vars

\* C21 witness: the last of two rows was removed: the row with the key
\* typed first is left and the cursor has moved back onto it.
C21_Witness ==
    /\ pc = "recv"
    /\ input_mode = "Editing"
    /\ focused_pane = "RequestDetails"
    /\ active_request_tab = "Headers"
    /\ headers = [entries |-> << [key |-> <<"a">>, value |-> <<>>, enabled |-> TRUE] >>,
                  focused_index |-> 0, focused_field |-> "Value"]

\* a text without its last character; the empty text stays empty
WithoutLast(s) == IF s = <<>> THEN <<>> ELSE SubSeq(s, 1, Len(s) - 1)

\* C22: Backspace in Editing mode on the RequestDetails pane never changes
\* entries.length, focused_index or focused_field; it removes the last
\* character of the focused field of the focused real entry and nothing
\* else, and changes nothing on the new-row slot or when that field is
\* empty.
C22_BackspaceKeepsRows ==
    [][EditingDetailsBackspace =>
          LET t  == get_active_tab
              i  == t.focused_index
              t2 == get_active_tab'
          IN  /\ t2.focused_index = i
              /\ t2.focused_field = t.focused_field
              /\ Len(t2.entries) = Len(t.entries)
              /\ \A k \in 1..Len(t.entries) :
                     t2.entries[k] =
                         IF k # i + 1 THEN t.entries[k]
                         ELSE IF t.focused_field = "Key"
                         THEN [t.entries[k] EXCEPT !.key = WithoutLast(@)]
                         ELSE [t.entries[k] EXCEPT !.value = WithoutLast(@)]]_vars

\* C22 witness: the value typed into the only row has been removed by
\* Backspace and the emptied row is still in the table, the key typed
\* before it untouched.
C22_Witness ==
    /\ pc = "recv"
    /\ input_mode = "Editing"
    /\ focused_pane = "RequestDetails"
    /\ active_request_tab = "Params"
    /\ params = [entries |-> << [key |-> <<"a">>, value |-> <<>>, enabled |-> TRUE] >>,
                 focused_index |-> 0, focused_field |-> "Value"]
    /\ headers.entries = <<>> /\ authorization.entries = <<>>

\* the cycle GET -> POST -> PUT -> DELETE -> PATCH -> GET
MethodRing ==
    [m \in {"GET", "POST", "PUT", "DELETE", "PATCH"} |->
        CASE m = "GET" -> "POST"
          [] m = "POST" -> "PUT"
          [] m = "PUT" -> "DELETE"
          [] m = "DELETE" -> "PATCH"
          [] m = "PATCH" -> "GET"]

\* C23: for every method, next_method applied five times and prev_method
\* applied five times give the method back, prev_method and next_method
\* undo each other, and next_method follows GET -> POST -> PUT -> DELETE ->
\* PATCH -> GET; Right and Left on the Method pane apply them.
C23_MethodCycle ==
    /\ [](/\ method \in DOMAIN MethodRing
          /\ next_method(method) = MethodRing[method]
          /\ next_method(next_method(next_method(next_method(next_method(method)))))
                 = method
          /\ prev_method(prev_method(prev_method(prev_method(prev_method(method)))))
                 = method
          /\ prev_method(next_method(method)) = method
          /\ next_method(prev_method(method)) = method)
    /\ [][/\ (NormalRight /\ focused_pane = "Method") => method' = MethodRing[method]
          /\ (NormalLeft /\ focused_pane = "Method") => MethodRing[method'] = method]_vars

\* C23 witness: Left on GET has just wrapped round to PATCH.
C23_Witness ==
    /\ pc = "recv"
    /\ focused_pane = "Method"
    /\ input_mode = "Normal"
    /\ method = "PATCH"

\* the texts of at most MaxText characters that do not end in a newline:
\* lines, empty ones included, joined by single newlines
RoundTripTexts ==
    {s \in UNION {[1..n -> {"{", " ", NL}] : n \in 0..MaxText} :
        s = <<>> \/ s[Len(s)] # NL}

\* the step in which browsing loads an entry of the history
LoadStep ==
    /\ NormalCtrlP \/ NormalCtrlN
    /\ focused_pane = "Url"
    /\ history_index' # None

\* C24: for every text s of lines joined by single newlines without a
\* trailing newline, set_body_text(s) followed by get_body_text gives s;
\* and a body saved to the history and loaded back by browsing equals the
\* body that was submitted.
C24_BodyRoundTrip ==
    /\ [](\A s \in RoundTripTexts : get_body_text(set_body_text(s)) = s)
    /\ [][LoadStep =>
             get_body_text(body_input') = history[Unwrap(history_index') + 1].body]_vars

\* C25: Enter in Normal mode is handled in every state, also when the
\* validation result reports an error for the body: it pushes one history
\* entry and starts one dispatch, both with the text of the body buffer,
\* and leaves the buffer and the validation result as they were.
C25_SubmitIgnoresValidation ==
    /\ []((pc = "poll" /\ input_mode = "Normal") => ENABLED NormalEnter)
    /\ [][NormalEnter =>
             /\ Len(history') = Len(history) + 1
             /\ Len(tasks') = Len(tasks) + 1
             /\ history'[Len(history')].body = get_body_text(body_input)
             /\ tasks'[Len(tasks')].req.body = get_body_text(body_input)
             /\ tasks'[Len(tasks')].st = "flight"
             /\ UNCHANGED <<body_input, validation_error>>]_vars

\* C25 witness: the body "{" has been submitted while the validation
\* result reports its error.
C25_Witness ==
    /\ pc = "recv"
    /\ validation_error # None
    /\ get_body_text(body_input) = <<"{">>
    /\ Len(history) = 1 /\ history[1].body = <<"{">>
    /\ Len(tasks) = 1 /\ tasks[1].req.body = <<"{">> /\ tasks[1].st = "flight"
    /\ response_text = Some(Str_Loading)

-----------------------------------------------------------------------------
IsEnabledRow(e) == e.enabled
EnabledRows(t) == [t EXCEPT !.entries = SelectSeq(@, IsEnabledRow)]

\* the arguments of a dispatch without the rows that are not enabled
EnabledOnly(req) ==
    [req EXCEPT !.headers = EnabledRows(@), !.params = EnabledRows(@),
                !.auth = EnabledRows(@)]

\* C26: the request of every dispatch is the one make_request builds when
\* the rows that are not enabled are taken out of the three tables, so such
\* a row gives no header, no query parameter, no authorization header and
\* no password, and to_pairs of a table is to_pairs of its enabled rows;
\* and a submit leaves every row, enabled or not, in its table
\* and copies it to the history entry it pushes.
C26_OnlyEnabledSubmitted ==
    /\ [](\A i \in 1..Len(tasks) :
             /\ make_request(tasks[i].req) = make_request(EnabledOnly(tasks[i].req))
             /\ to_pairs(tasks[i].req.headers) = to_pairs(EnabledRows(tasks[i].req.headers))
             /\ to_pairs(tasks[i].req.params) = to_pairs(EnabledRows(tasks[i].req.params))
             /\ to_pairs(tasks[i].req.auth) = to_pairs(EnabledRows(tasks[i].req.auth)))
    /\ [][NormalEnter =>
             /\ UNCHANGED tableVars
             /\ history'[Len(history')].headers = headers
             /\ history'[Len(history')].params = params
             /\ history'[Len(history')].auth = authorization]_vars

C26_Witness ==
    /\ Len(tasks) = 1 /\ Len(history) = 1
    /\ authorization.entries =
           <<KeyValueEntry(Str_username, <<"u">>, TRUE),
             KeyValueEntry(Str_password, <<"p">>, FALSE)>>
    /\ tasks[1].req.auth = authorization
    /\ history[1].auth = authorization
    /\ make_request(tasks[1].req).headers = {}

-----------------------------------------------------------------------------
\* C27: the response text is None exactly when the history is empty, and no
\* step takes it from Some back to None.
C27_TextAbsentIffNeverSubmitted ==
    /\ [](response_text = None <=> Len(history) = 0)
    /\ [][response_text # None => response_text' # None]_vars

C27_Witness ==
    /\ Len(history) = 2
    /\ received = 1
    /\ IsSome(response_text)
    /\ response_text # Some(Str_Loading)

-----------------------------------------------------------------------------
\* C28: while the response text is the Loading sentinel, some dispatch that
\* was submitted has not had its result merged (no result of the transport
\* has the sentinel as its text).
C28_LoadingMeansInFlight ==
    response_text = Some(Str_Loading) => received < Len(tasks)

C28_Witness ==
    /\ response_text = Some(Str_Loading)
    /\ Len(tasks) = 2
    /\ received = 1
    /\ tasks[1].st = "done"
    /\ tasks[2].st = "flight"

-----------------------------------------------------------------------------
\* C29 as stated: once running is false no step changes the response state.
C29_NoMergeAfterQuit ==
    [][~running => UNCHANGED responseVars]_vars

\* C29: once running is false the response state changes in one step only,
\* the channel poll of the iteration that handled the quit key, which merges
\* the result at the head of the inbox and ends the loop; no key is read
\* and nothing is merged after it.
C29_OneMergeAfterQuit ==
    /\ [][(~running /\ responseVars' # responseVars) =>
             /\ pc = "recv" /\ pc' = "done"
             /\ received < Len(chan) /\ received' = received + 1
             /\ <<response_status', response_text'>> = merge_response(chan[received + 1])
             /\ response_scroll' = response_scroll]_vars
    /\ [](~running => pc \in {"recv", "done"})
    /\ [][pc = "done" => UNCHANGED vars]_vars

\* the quit key has been handled with a result waiting in the inbox
C29_Witness ==
    /\ ~running
    /\ pc = "recv"
    /\ Len(tasks) = 2 /\ Len(chan) = 2 /\ received = 0
    /\ response_text = Some(Str_Loading)

-----------------------------------------------------------------------------
Sent == {i \in 1..Len(tasks) : tasks[i].st = "done"}
Waiting == {i \in 1..Len(tasks) : tasks[i].st = "sending"}

\* every result the transport returned so far has been sent and merged
AllMerged == Waiting = {} /\ received = Len(chan)

\* C30: the inbox never holds more than Capacity results; every dispatch
\* that has sent put its one result, response or error, into the channel
\* and no other message is there; a sender waits exactly while the inbox is
\* full; every poll that takes a message merges it; and while the loop goes
\* on polling, again and again every result returned so far has been sent
\* and merged, also after more than Capacity dispatches completed between
\* two polls.
C30_NoResultLost ==
    /\ [](/\ Len(chan) - received <= Capacity
          /\ Len(chan) = Cardinality(Sent)
          /\ \A n \in 1..Len(chan) : n \in Sent /\ chan[n] = Unwrap(tasks[n].result)
          /\ (Waiting # {} /\ pc # "done") =>
                 (ENABLED SendsInOrder <=> Len(chan) - received < Capacity))
    /\ [][received' # received =>
             /\ received' = received + 1
             /\ <<response_status', response_text'>> = merge_response(chan[received + 1])]_vars
    /\ []<>AllMerged

\* eleven dispatches completed before one poll took a result: ten results
\* fill the inbox and the eleventh sender waits
C30_Witness ==
    /\ Len(tasks) = Capacity + 1
    /\ received = 0
    /\ Len(chan) = Capacity
    /\ tasks[Capacity + 1].st = "sending"
    /\ chan[1].tag = "Err"

-----------------------------------------------------------------------------
IsBearerRow(e) ==
    /\ e.enabled
    /\ \/ eq_ignore_ascii_case(e.key, Str_Authorization)
       \/ eq_ignore_ascii_case(e.key, Str_Bearer)

IsApiKeyRow(e) ==
    /\ e.enabled
    /\ \/ eq_ignore_ascii_case(e.key, Str_API_Key)
       \/ eq_ignore_ascii_case(e.key, Str_X_API_Key)

HeaderNames(m) == {p[1] : p \in m}

\* C31 as stated: in the request of every dispatch, when the Authorization
\* table has an enabled "Authorization" or "Bearer" row, the Authorization
\* header sent is the value of such a row, whatever other rows the table has
\* and whatever their order.
C31_FirstMatchWins ==
    \A i \in 1..Len(tasks) :
        LET es == tasks[i].req.auth.entries
            hm == make_request(tasks[i].req).headers
            bearers == {k \in 1..Len(es) : IsBearerRow(es[k])}
        IN  bearers # {} => \E k \in bearers : <<AUTHORIZATION, es[k].value>> \in hm

\* the rest of C31 as stated: a lower pattern is not installed beside a
\* higher one (no API-key header with an "Authorization" row, no Basic
\* credential with an API-key row).
C31_OnlyHighestInstalled ==
    \A i \in 1..Len(tasks) :
        LET es == tasks[i].req.auth.entries
            hm == make_request(tasks[i].req).headers
            bearers == {k \in 1..Len(es) : IsBearerRow(es[k])}
            apikeys == {k \in 1..Len(es) : IsApiKeyRow(es[k])}
        IN  /\ bearers # {} =>
                \A k \in apikeys :
                    Unwrap(HeaderName_from_str(es[k].key)) \notin HeaderNames(hm)
            /\ (bearers = {} /\ apikeys # {}) => AUTHORIZATION \notin HeaderNames(hm)

-----------------------------------------------------------------------------
\* C32: a submit writes the Loading sentinel to response_text and leaves
\* response_status and response_scroll as they were; and while the text
\* stays the sentinel no step changes the status, so the status of an
\* earlier response stays until a result is merged.
C32_SubmitKeepsStatusAndScroll ==
    /\ [][NormalEnter =>
             /\ response_text' = Some(Str_Loading)
             /\ UNCHANGED <<response_status, response_scroll>>]_vars
    /\ [][(response_text = Some(Str_Loading) /\ response_text' = Some(Str_Loading)) =>
             UNCHANGED response_status]_vars

\* the text is the sentinel under the status of the response before it,
\* scrolled down
C32_Witness ==
    /\ response_text = Some(Str_Loading)
    /\ response_status = Some(200)
    /\ response_scroll = 2
    /\ Len(tasks) = 2 /\ tasks[2].st = "flight"
    /\ received = 1

-----------------------------------------------------------------------------
\* C33: submission i spawned dispatch i and pushed history entry i, and the
\* method, url, headers, params, authorization and body the dispatch was
\* given are those of that entry; no step, whether an edit, a history load
\* or another submission, changes the arguments of a dispatch or an entry
\* of the history.
C33_DispatchMatchesHistory ==
    /\ [](/\ Len(tasks) = Len(history)
          /\ \A i \in 1..Len(tasks) : tasks[i].req = history[i])
    /\ [][\A i \in 1..Len(tasks) :
              tasks'[i].req = tasks[i].req /\ history'[i] = history[i]]_vars

\* the first dispatch is still in flight after its url was edited away,
\* a second request was submitted and the first entry was loaded back
C33_Witness ==
    /\ Len(tasks) = 2
    /\ tasks[1].st = "flight"
    /\ tasks[1].req.url = <<"q">> /\ history[1].url = <<"q">>
    /\ tasks[2].req.url = <<>> /\ history[2].url = <<>>
    /\ history_index = Some(0)
    /\ url_input = <<"q">>

-----------------------------------------------------------------------------
AllEnabled(t) == \A k \in 1..Len(t.entries) : t.entries[k].enabled

\* C34: every row of the three tables, and of the three tables of every
\* history entry, is enabled.
C34_RowsAlwaysEnabled ==
    /\ AllEnabled(headers) /\ AllEnabled(params) /\ AllEnabled(authorization)
    /\ \A i \in 1..Len(history) :
           /\ AllEnabled(history[i].headers)
           /\ AllEnabled(history[i].params)
           /\ AllEnabled(history[i].auth)

\* a row was added, submitted with the request and loaded back from the history
C34_Witness ==
    /\ Len(headers.entries) = 1
    /\ Len(history) = 1 /\ Len(history[1].headers.entries) = 1
    /\ history_index = Some(0)

=============================================================================
